---- MODULE Spec2Model ----
(***************************************************************************)
(* Model of the checkpointed clip-assembly pipeline of audiogiphy:         *)
(* build_visual_track, load_checkpoint, save_checkpoint, load_blacklist    *)
(* and save_blacklist of src/audiogiphy/visual_builder.py.                 *)
(*                                                                         *)
(* One behaviour is a sequence of calls of build_visual_track with the     *)
(* same arguments and the same checkpoint directory (giphy_segment_plan    *)
(* is None, its default).  The directory starts empty.  A call may be      *)
(* killed at any step; what is on disk survives, the memory of the call    *)
(* does not.                                                               *)
(*                                                                         *)
(* The failures of a second are: VideoFileClip() raising for a file (a     *)
(* property of the file, `corrupt`), the extract/retime/letterbox chain    *)
(* raising, write_videofile raising for the clip, and raising again for    *)
(* the black-frame fallback.  Building a black frame in memory does not    *)
(* fail.                                                                   *)
(***************************************************************************)
EXTENDS Integers, Sequences, FiniteSets, TLC

(* ---------------------------------------------------------------- bounds *)
\* durations of the short runs: 1 .. MaxDuration
MaxDuration == 3
\* durations of the long runs: CHECKPOINT_INTERVAL + 1 .. CHECKPOINT_INTERVAL + MaxExtra
MaxExtra == 1
\* processing / write failures injected in one behaviour
MaxFaults == 1
\* kills of the process in one behaviour
MaxKills == 1
\* calls of build_visual_track in one behaviour
MaxCalls == 2

(* ------------------------------------------------------ program constants *)
CHECKPOINT_INTERVAL == 50
max_tries == 5

(* ------------------------------------------------------------- the inputs *)
\* a file name is a pair <<text, number>>; the number is -1 except for the
\* names f"unknown_sec_{sec}" that line 1069 puts into the blacklist
FileName(s) == <<s, -1>>
BankNames == {FileName("a.mp4"), FileName("b.mp4")}
Durations == 1 .. MaxDuration
LongDurations == {CHECKPOINT_INTERVAL + d : d \in 1 .. MaxExtra}
CheckpointDir == "checkpoints"
NoName == <<"None", -1>>

VARIABLES
  duration_seconds, \* argument of build_visual_track
  folder_exists,    \* Path(video_folder).exists()
  bank,             \* names of the *.mp4 files of video_folder
  corrupt,          \* files of the bank that VideoFileClip() fails to open
  checkpoint_json,  \* checkpoint_dir / "checkpoint.json"
  clip_list_json,   \* checkpoint_dir / "clip_list.json"
  blacklist_json,   \* checkpoint_dir / "blacklist.json"
  clip_files,       \* second -> what clip_{sec:06d}.mp4 holds on disk
  pc,               \* position of the call
  sec,              \* loop variable of build_visual_track
  start_sec,        \* resume second returned by load_checkpoint
  attempt,          \* loop variable of the retry loop
  video_paths,      \* candidates: bank minus the blacklist loaded at start
  video_path,       \* candidate kept by the retry loop, NoName for None
  video_clip,       \* TRUE when an opened VideoFileClip is held
  one_sec,          \* the clip to write: "none", "asset" or "blank"
  clip_paths,       \* list of Path of the clips produced so far
  blacklist,        \* in-memory blacklist
  returned,         \* [some, val]: value returned by the current call
  raised,           \* exception that left the current call, "" for none
  prev_returned,    \* value returned by the previous call
  written,          \* seconds whose clip file the current call wrote
  before_save,      \* what load_checkpoint returned for the directory when the last save_checkpoint was called
  saves,            \* <<sec, last_completed_second, clip_paths>> of each save_checkpoint call of the current call
  crashed_at,       \* pc at which the last call was killed, "" if it was not
  faults,           \* processing / write failures still to inject
  kills,            \* kills so far
  calls,            \* calls so far
  ck,               \* a save_checkpoint / load_checkpoint round trip
  sp,               \* the speed factor of one second
  rv,               \* a call of render_video
  tl,               \* a call of bpm_timeline_from_segments
  an,               \* a call of analyze_bpm_segments / analyze_global_bpm
  ly,               \* a call of map_anchors_to_seconds or build_karaoke_mapping
  api               \* a render job of the API server and a client of its log stream

\* the variables of build_visual_track and of its checkpoint directory
assembly == <<duration_seconds, folder_exists, bank, corrupt, checkpoint_json,
              clip_list_json, blacklist_json, clip_files, pc, sec, start_sec,
              attempt, video_paths, video_path, video_clip, one_sec, clip_paths,
              blacklist, returned, raised, prev_returned, written, before_save,
              saves, crashed_at, faults, kills, calls>>

\* the variables of the functions that are modelled one call at a time; each
\* holds a record whose field pc is "off" in the specifications that do not
\* call the function
functions == <<ck, sp, rv, tl, an, ly, api>>

vars == <<assembly, functions>>

inputs == <<duration_seconds, folder_exists, bank, corrupt>>
disk   == <<checkpoint_json, clip_list_json, blacklist_json, clip_files>>
memory == <<sec, start_sec, attempt, video_paths, video_path, video_clip,
            one_sec, clip_paths, blacklist>>

(* ------------------------------------------------------------------ files *)
\* a JSON file is missing, unparseable (opened for writing and not yet
\* written, or written in part), or holds a document
Missing(d)   == [state |-> "missing", data |-> d]
Unparsed(d)  == [state |-> "corrupt", data |-> d]
Document(d)  == [state |-> "ok", data |-> d]

NoCheckpoint == [last_completed_second |-> 0, num_clips |-> 0]

\* pathlib: checkpoint_dir / name, and Path.name
PathOf(dir, name) == [dir |-> dir, name |-> name]
NameOf(p) == p.name
\* f"clip_{sec:06d}.mp4"
ClipName(s) == <<"clip", s>>

\* open(path, 'w') truncates the file; json.dump then fills it
open_w(d) == Unparsed(d)

\* mutant of load_blacklist: the persisted blacklist is not read
load_blacklist_empty(file) == {}

load_blacklist(file) ==
  IF file.state = "ok" THEN file.data ELSE {}

load_checkpoint(dir, ckpt, cliplist, blfile) ==
  IF ckpt.state = "missing"
  THEN <<0, <<>>, {}>>
  ELSE <<IF ckpt.state = "ok" THEN ckpt.data.last_completed_second ELSE 0,
         IF cliplist.state = "ok"
         THEN [i \in 1 .. Len(cliplist.data) |-> PathOf(dir, cliplist.data[i])]
         ELSE <<>>,
         load_blacklist(blfile)>>

\* the documents save_checkpoint writes
CheckpointData(last, paths) ==
  [last_completed_second |-> last, num_clips |-> Len(paths)]
ClipListData(paths) == [i \in 1 .. Len(paths) |-> NameOf(paths[i])]

\* mutant of Candidates: the blacklist is not applied to the listing
CandidatesUnfiltered(files, bl) == files

\* line 871: the candidates are the files of the bank that are not blacklisted
Candidates(files, bl) == {p \in files : p \notin bl}

\* line 928: checkpoint_dir / f"clip_{sec:06d}.mp4"
ClipPath(s) == PathOf(CheckpointDir, ClipName(s))

\* the list of the clip paths of seconds 0 .. n-1
AllClips(n) == [i \in 1 .. n |-> ClipPath(i - 1)]

Some(v) == [some |-> TRUE, val |-> v]
None == [some |-> FALSE, val |-> <<>>]

(* ------------------------------------------------------------------- Init *)
Off == [pc |-> "off"]

FunctionsOff ==
  ck = Off /\ sp = Off /\ rv = Off /\ tl = Off /\ an = Off /\ ly = Off /\ api = Off

InitWith(ds, budget, mixed) ==
  /\ duration_seconds \in ds
  /\ folder_exists \in BOOLEAN
  /\ bank \in SUBSET BankNames
  /\ corrupt \in SUBSET bank
  /\ (~mixed => corrupt \in {{}, bank})
  /\ (~folder_exists => bank = {})
  /\ checkpoint_json = Missing(NoCheckpoint)
  /\ clip_list_json = Missing(<<>>)
  /\ blacklist_json = Missing({})
  /\ clip_files = [s \in 0 .. duration_seconds - 1 |-> "none"]
  /\ pc = "idle"
  /\ sec = 0
  /\ start_sec = 0
  /\ attempt = 0
  /\ video_paths = {}
  /\ video_path = NoName
  /\ video_clip = FALSE
  /\ one_sec = "none"
  /\ clip_paths = <<>>
  /\ blacklist = {}
  /\ returned = None
  /\ raised = ""
  /\ prev_returned = None
  /\ written = {}
  /\ before_save = <<0, <<>>, {}>>
  /\ saves = {}
  /\ crashed_at = ""
  /\ faults = budget
  /\ kills = 0
  /\ calls = 0

\* every function variable but the named one is off
FunctionsOffBut(name) ==
  /\ name # "ck" => ck = Off
  /\ name # "sp" => sp = Off
  /\ name # "rv" => rv = Off
  /\ name # "tl" => tl = Off
  /\ name # "an" => an = Off
  /\ name # "ly" => ly = Off
  /\ name # "api" => api = Off

\* build_visual_track not called, on a missing folder: the state of the
\* assembly variables in the specifications of the other functions
AssemblyIdle == InitWith({1}, 0, FALSE) /\ ~folder_exists

(* ---------------------------------------------------------------- actions *)
\* build_visual_track up to the head of the loop over the seconds
Call ==
  /\ UNCHANGED functions
  /\ pc \in {"idle", "done", "raised", "killed"}
  /\ calls < MaxCalls
  /\ calls' = calls + 1
  /\ prev_returned' = IF pc = "done" THEN returned ELSE None
  /\ written' = {}
  /\ saves' = {}
  /\ attempt' = 0
  /\ video_path' = NoName
  /\ video_clip' = FALSE
  /\ one_sec' = "none"
  /\ UNCHANGED <<inputs, disk, before_save, crashed_at, faults, kills>>
  /\ IF ~folder_exists
     THEN /\ pc' = "raised"
          /\ raised' = "FileNotFoundError"
          /\ returned' = None
          /\ UNCHANGED <<sec, start_sec, video_paths, clip_paths, blacklist>>
     ELSE LET loaded == load_checkpoint(CheckpointDir, checkpoint_json,
                                        clip_list_json, blacklist_json)
              bl == load_blacklist(blacklist_json) \cup loaded[3]
              vp == Candidates(bank, bl)
          IN  /\ blacklist' = bl
              /\ video_paths' = vp
              /\ start_sec' = loaded[1]
              /\ IF vp = {}
                 THEN /\ pc' = "raised"
                      /\ raised' = "FileNotFoundError"
                      /\ returned' = None
                      /\ UNCHANGED <<sec, clip_paths>>
                 ELSE /\ raised' = ""
                      /\ clip_paths' = loaded[2]
                      /\ sec' = loaded[1]
                      /\ IF loaded[1] < duration_seconds
                         THEN /\ pc' = "select"
                              /\ returned' = None
                         ELSE /\ pc' = "done"
                              /\ returned' = Some(loaded[2])

\* the statements that open the body of the loop for second s (lines 918-970)
EnterSecond(s) ==
  /\ sec' = s
  /\ attempt' = 0
  /\ video_path' = NoName
  /\ video_clip' = FALSE
  /\ one_sec' = "none"
  /\ pc' = "select"

\* mutant of open_candidate: the except clause does not drop the clip
open_candidate_keeps_clip(candidate, bl) ==
  IF candidate \in corrupt
  THEN [video_clip |-> TRUE, blacklist |-> bl \cup {candidate}]
  ELSE [video_clip |-> TRUE, blacklist |-> bl]

\* lines 977-988: VideoFileClip(str(video_path)) and the duration probe; on an
\* exception the candidate is blacklisted and no clip is held
open_candidate(candidate, bl) ==
  IF candidate \in corrupt
  THEN [video_clip |-> FALSE, blacklist |-> bl \cup {candidate}]
  ELSE [video_clip |-> TRUE, blacklist |-> bl]

\* one iteration of the retry loop `for attempt in range(max_tries)`
SelectAsset ==
  /\ UNCHANGED functions
  /\ pc = "select"
  /\ attempt < max_tries
  /\ \E candidate \in video_paths :
       IF candidate \in blacklist
       THEN \* continue
            /\ attempt' = attempt + 1
            /\ pc' = IF attempt + 1 < max_tries THEN "select" ELSE "process"
            /\ UNCHANGED <<video_path, video_clip, blacklist>>
       ELSE LET opened == open_candidate(candidate, blacklist)
            IN  /\ video_path' = candidate
                /\ video_clip' = opened.video_clip
                /\ blacklist' = opened.blacklist
                /\ IF candidate \in corrupt
                   THEN \* the except clause: next attempt
                        /\ attempt' = attempt + 1
                        /\ pc' = IF attempt + 1 < max_tries THEN "select" ELSE "process"
                   ELSE \* break
                        /\ pc' = "process"
                        /\ UNCHANGED attempt
  /\ UNCHANGED <<inputs, disk, sec, start_sec, video_paths, one_sec, clip_paths,
                 returned, raised, prev_returned, written, before_save, saves,
                 crashed_at, faults, kills, calls>>

\* lines 990-1022: black frame when nothing was opened, else extract the
\* window, retime, letterbox and trim; an exception there blacklists the asset
ProcessClip ==
  /\ UNCHANGED functions
  /\ pc = "process"
  /\ pc' = "write"
  /\ IF ~video_clip
     THEN /\ one_sec' = "blank"
          /\ UNCHANGED <<blacklist, video_clip, faults>>
     ELSE \/ /\ one_sec' = "asset"
             /\ UNCHANGED <<blacklist, video_clip, faults>>
          \/ /\ faults > 0
             /\ faults' = faults - 1
             /\ blacklist' = blacklist \cup
                   {IF video_path # NoName THEN video_path ELSE FileName("unknown")}
             /\ video_clip' = FALSE
             /\ one_sec' = "blank"
  /\ UNCHANGED <<inputs, disk, sec, start_sec, attempt, video_paths, video_path,
                 clip_paths, returned, raised, prev_returned, written,
                 before_save, saves, crashed_at, kills, calls>>

\* mutant of CheckpointDue: only the final second is saved
CheckpointDueLast(s) == s = duration_seconds - 1

\* line 1078
CheckpointDue(s) ==
  (s + 1) % CHECKPOINT_INTERVAL = 0 \/ s = duration_seconds - 1

\* what follows the write of second sec: save_checkpoint, or the next second
\* (clip_paths' and blacklist' are the arguments of the save)
AfterWrite ==
  IF CheckpointDue(sec)
  THEN /\ pc' = "save_open_checkpoint"
       /\ video_clip' = FALSE
       /\ one_sec' = "none"
       /\ before_save' = load_checkpoint(CheckpointDir, checkpoint_json,
                                         clip_list_json, blacklist_json)
       /\ saves' = saves \cup {<<sec, sec + 1, clip_paths'>>}
       /\ UNCHANGED <<sec, attempt, video_path>>
  ELSE /\ EnterSecond(sec + 1)
       /\ UNCHANGED <<before_save, saves>>

\* lines 1029-1076: write the clip of the second; when that raises, write a
\* black frame instead; when that raises too, blacklist and go on
WriteClip ==
  /\ UNCHANGED functions
  /\ pc = "write"
  /\ LET checkpoint_clip_path == ClipPath(sec)
     IN  \/ \* write_videofile succeeds
            /\ clip_files' = [clip_files EXCEPT ![sec] = one_sec]
            /\ clip_paths' = Append(clip_paths, checkpoint_clip_path)
            /\ written' = written \cup {sec}
            /\ UNCHANGED <<blacklist, faults>>
         \/ \* write_videofile raises, the fallback write succeeds
            /\ faults > 0
            /\ faults' = faults - 1
            /\ clip_files' = [clip_files EXCEPT ![sec] = "blank"]
            /\ clip_paths' = Append(clip_paths, checkpoint_clip_path)
            /\ written' = written \cup {sec}
            /\ UNCHANGED blacklist
         \/ \* both raise
            /\ faults > 0
            /\ faults' = faults - 1
            /\ blacklist' = blacklist \cup
                  {IF video_path # NoName THEN video_path ELSE <<"unknown_sec", sec>>}
            /\ UNCHANGED <<clip_files, clip_paths, written>>
  /\ AfterWrite
  /\ UNCHANGED <<inputs, checkpoint_json, clip_list_json, blacklist_json,
                 start_sec, video_paths, returned, raised, prev_returned,
                 crashed_at, kills, calls>>

\* save_checkpoint(checkpoint_dir, sec + 1, clip_paths, blacklist), one action
\* per effect on the disk: open(checkpoint_file, 'w') ...
SaveOpenCheckpoint ==
  /\ UNCHANGED functions
  /\ pc = "save_open_checkpoint"
  /\ checkpoint_json' = open_w(checkpoint_json.data)
  /\ pc' = "save_dump_checkpoint"
  /\ UNCHANGED <<inputs, clip_list_json, blacklist_json, clip_files, memory,
                 returned, raised, prev_returned, written, before_save, saves,
                 crashed_at, faults, kills, calls>>

\* ... json.dump(checkpoint_data, f)
SaveDumpCheckpoint ==
  /\ UNCHANGED functions
  /\ pc = "save_dump_checkpoint"
  /\ checkpoint_json' = Document(CheckpointData(sec + 1, clip_paths))
  /\ pc' = "save_open_clip_list"
  /\ UNCHANGED <<inputs, clip_list_json, blacklist_json, clip_files, memory,
                 returned, raised, prev_returned, written, before_save, saves,
                 crashed_at, faults, kills, calls>>

\* ... open(clip_list_file, 'w')
SaveOpenClipList ==
  /\ UNCHANGED functions
  /\ pc = "save_open_clip_list"
  /\ clip_list_json' = open_w(clip_list_json.data)
  /\ pc' = "save_dump_clip_list"
  /\ UNCHANGED <<inputs, checkpoint_json, blacklist_json, clip_files, memory,
                 returned, raised, prev_returned, written, before_save, saves,
                 crashed_at, faults, kills, calls>>

\* ... json.dump(clip_list_data, f)
SaveDumpClipList ==
  /\ UNCHANGED functions
  /\ pc = "save_dump_clip_list"
  /\ clip_list_json' = Document(ClipListData(clip_paths))
  /\ pc' = "save_open_blacklist"
  /\ UNCHANGED <<inputs, checkpoint_json, blacklist_json, clip_files, memory,
                 returned, raised, prev_returned, written, before_save, saves,
                 crashed_at, faults, kills, calls>>

\* ... save_blacklist: open(blacklist_path, 'w')
SaveOpenBlacklist ==
  /\ UNCHANGED functions
  /\ pc = "save_open_blacklist"
  /\ blacklist_json' = open_w(blacklist_json.data)
  /\ pc' = "save_dump_blacklist"
  /\ UNCHANGED <<inputs, checkpoint_json, clip_list_json, clip_files, memory,
                 returned, raised, prev_returned, written, before_save, saves,
                 crashed_at, faults, kills, calls>>

\* ... json.dump(list(blacklist), f); then the next second, or the return
\* of clip_paths after the last one (lines 1082-1088)
SaveDumpBlacklist ==
  /\ UNCHANGED functions
  /\ pc = "save_dump_blacklist"
  /\ blacklist_json' = Document(blacklist)
  /\ IF sec + 1 < duration_seconds
     THEN /\ EnterSecond(sec + 1)
          /\ UNCHANGED returned
     ELSE /\ pc' = "done"
          /\ returned' = Some(clip_paths)
          /\ UNCHANGED <<sec, attempt, video_path, video_clip, one_sec>>
  /\ UNCHANGED <<inputs, checkpoint_json, clip_list_json, clip_files, start_sec,
                 video_paths, clip_paths, blacklist, raised, prev_returned,
                 written, before_save, saves, crashed_at, faults, kills, calls>>

Running ==
  {"select", "process", "write", "save_open_checkpoint", "save_dump_checkpoint",
   "save_open_clip_list", "save_dump_clip_list", "save_open_blacklist",
   "save_dump_blacklist"}

\* the process is killed: the disk stays as it is; the variables of the call
\* keep the values they had, for reference, until the next Call resets them
Kill ==
  /\ UNCHANGED functions
  /\ pc \in Running
  /\ kills < MaxKills
  /\ kills' = kills + 1
  /\ crashed_at' = pc
  /\ pc' = "killed"
  /\ UNCHANGED <<inputs, disk, memory, returned, raised, prev_returned, written,
                 before_save, saves, faults, calls>>

Next ==
  \/ Call
  \/ SelectAsset
  \/ ProcessClip
  \/ WriteClip
  \/ SaveOpenCheckpoint
  \/ SaveDumpCheckpoint
  \/ SaveOpenClipList
  \/ SaveDumpClipList
  \/ SaveOpenBlacklist
  \/ SaveDumpBlacklist
  \/ Kill

\* short runs, with processing and write failures
Init == InitWith(Durations, MaxFaults, TRUE) /\ FunctionsOff
Spec == Init /\ [][Next]_vars

\* runs longer than one checkpoint interval, without such failures, on a bank
\* whose files all open or all fail to open
InitLong == InitWith(LongDurations, 0, FALSE) /\ FunctionsOff
SpecLong == InitLong /\ [][Next]_vars

(* ------------------------------------------------------------- properties *)
Stopped == {"idle", "done", "raised", "killed"}
Saving == Running \ {"select", "process", "write"}

\* what load_checkpoint returns for the directory as it is now
Loaded ==
  load_checkpoint(CheckpointDir, checkpoint_json, clip_list_json, blacklist_json)

\* seconds completed by the current call, or by the call that was killed
Completed(at) == IF at \in Saving THEN sec + 1 ELSE sec

\* second of a clip path
SecondOf(p) == p.name[2]

IsPrefix(s, t) == Len(s) <= Len(t) /\ \A i \in 1 .. Len(s) : s[i] = t[i]

\* C1: a first call (empty checkpoint directory) that returns, returns the
\* clip paths of seconds 0 .. duration_seconds-1, one per second and in order,
\* whatever failed on the way
C1_ReturnsEverySecond ==
  (pc = "done" /\ calls = 1) => returned.val = AllClips(duration_seconds)

\* C2: the call that follows a call that returned does not raise, returns the
\* same list, and writes no clip below the resume second
C2_ResumeIdempotent ==
  (prev_returned.some /\ pc \in Stopped) =>
     /\ pc = "done"
     /\ returned = prev_returned
     /\ \A s \in written : s >= start_sec

\* C3: after a kill inside save_checkpoint, load_checkpoint gives the resume
\* second and the clip list of the checkpoint that was there before the save,
\* or those of the save that was under way
C3_SaveIsAtomic ==
  (pc = "killed" /\ crashed_at \in Saving) =>
     \/ (Loaded[1] = before_save[1] /\ Loaded[2] = before_save[2])
     \/ (Loaded[1] = sec + 1 /\ Loaded[2] = clip_paths)

\* C4: every save_checkpoint call stores a clip list of exactly
\* last_completed_second entries, entry i being the clip of second i
C4_CheckpointCountsClips ==
  \A sv \in saves : sv[3] = AllClips(sv[2])

\* C5: whenever checkpoint.json is missing or unparseable, load_checkpoint
\* returns second 0, an empty clip list and the blacklist of blacklist.json
C5_CorruptCheckpointIsFresh ==
  (pc \in Stopped /\ checkpoint_json.state # "ok") =>
     Loaded = <<0, <<>>, load_blacklist(blacklist_json)>>

\* C6: the call that follows a kill after k completed seconds resumes at a
\* second r with r <= k and k - r < CHECKPOINT_INTERVAL, and a call made after
\* a kill returns duration_seconds paths when it returns
C6_KillLosesLessThanAnInterval ==
  [][/\ (pc = "killed" /\ pc' # "killed") =>
          /\ start_sec' <= Completed(crashed_at)
          /\ Completed(crashed_at) - start_sec' < CHECKPOINT_INTERVAL
     /\ (pc' = "done" /\ crashed_at' # "") =>
          Len(returned'.val) = duration_seconds]_vars

\* C7: whenever an asset is about to be drawn, and after a kill, every name of
\* the in-memory blacklist is in the persisted blacklist.json
C7_BlacklistWrittenThrough ==
  (pc \in {"select", "killed"}) => blacklist \subseteq load_blacklist(blacklist_json)

\* C8: on a bank whose files all fail to open, a first call (empty blacklist)
\* does not raise and, opening failures being the only failures (no
\* write_videofile call raises), returns the duration_seconds clip paths,
\* every one of them a blank clip on disk
C8_AllCorruptGivesBlanks ==
  (calls = 1 /\ bank # {} /\ corrupt = bank /\ faults = MaxFaults) =>
     /\ raised = ""
     /\ pc = "done" =>
          /\ returned.val = AllClips(duration_seconds)
          /\ \A i \in 1 .. Len(returned.val) :
                clip_files[SecondOf(returned.val[i])] = "blank"

C8_Witness ==
  /\ pc = "done" /\ calls = 1 /\ faults = MaxFaults
  /\ Cardinality(bank) = 2 /\ corrupt = bank
  /\ duration_seconds > 1
  /\ Len(returned.val) = duration_seconds

\* C9: a call raises FileNotFoundError when the folder is missing and when
\* every *.mp4 file of the folder is in the persisted blacklist (no file at
\* all included); such a call writes no clip, saves no checkpoint and leaves
\* the checkpoint directory as it was
C9_NoCandidatesRaises ==
  [][(calls' = calls + 1 /\ (~folder_exists \/ bank \subseteq load_blacklist(blacklist_json))) =>
        /\ pc' = "raised"
        /\ raised' = "FileNotFoundError"
        /\ written' = {}
        /\ saves' = {}
        /\ disk' = disk]_vars

C9_Witness ==
  /\ pc = "raised" /\ folder_exists /\ bank # {}
  /\ bank \subseteq load_blacklist(blacklist_json)

\* C10: the clip paths are in strictly increasing second order, and the clip
\* list of every save of a call is a prefix of the list the call returns
C10_IncreasingAndPrefix ==
  /\ \A i \in 1 .. Len(clip_paths) - 1 :
        SecondOf(clip_paths[i]) < SecondOf(clip_paths[i + 1])
  /\ pc = "done" => \A sv \in saves : IsPrefix(sv[3], returned.val)

(***************************************************************************)
(* save_checkpoint followed by load_checkpoint, in the two layouts:        *)
(* "two_document" is src/audiogiphy/visual_builder.py (checkpoint.json     *)
(* and clip_list.json), "single_document" is src/main.py (checkpoint.json  *)
(* holding the clip list).                                                 *)
(***************************************************************************)
\* longest clip list saved, and number of clip files it is drawn from
MaxPaths == 2

\* sequences over S of length at most n
SeqsUpTo(S, n) == UNION {[1 .. k -> S] : k \in 0 .. n}

ListedPaths == {ClipPath(s) : s \in 0 .. MaxPaths - 1}

\* visual_builder.save_checkpoint run to its end: the three files it leaves
save_checkpoint(last, paths, bl) ==
  [checkpoint_json |-> Document(CheckpointData(last, paths)),
   clip_list_json |-> Document(ClipListData(paths)),
   blacklist_json |-> Document(bl)]

\* str(clip_path) and Path(c)
PathStr(p) == <<p.dir, p.name>>
PathFromStr(c) == [dir |-> c[1], name |-> c[2]]

\* main.load_blacklist
main_load_blacklist(file) ==
  IF file.state = "ok" THEN file.data ELSE {}

\* main.save_checkpoint: one document and the blacklist
main_save_checkpoint(last, paths, bl) ==
  [checkpoint_json |->
     Document([last_completed_sec |-> last,
               saved_clips |-> [i \in 1 .. Len(paths) |-> PathStr(paths[i])]]),
   blacklist_json |-> Document(bl)]

\* main.load_checkpoint; `existing` is the set of the paths p with p.exists()
main_load_checkpoint(ckpt, blfile, existing) ==
  IF ckpt.state = "ok"
  THEN LET saved_clips == ckpt.data.saved_clips
           as_paths == [i \in 1 .. Len(saved_clips) |-> PathFromStr(saved_clips[i])]
           Exists(q) == q \in existing
       IN  <<ckpt.data.last_completed_sec, SelectSeq(as_paths, Exists),
             main_load_blacklist(blfile)>>
  ELSE <<0, <<>>, main_load_blacklist(blfile)>>

InitRoundTrip ==
  /\ AssemblyIdle
  /\ sp = Off /\ rv = Off /\ tl = Off /\ an = Off /\ ly = Off /\ api = Off
  /\ ck \in [pc : {"start"},
             layout : {"two_document", "single_document"},
             last_completed_second : 0 .. MaxPaths,
             clip_paths : SeqsUpTo(ListedPaths, MaxPaths),
             blacklist : SUBSET BankNames,
             existing : SUBSET ListedPaths,
             files : {<<>>},
             loaded : {<<>>}]

RoundTripSave ==
  /\ ck.pc = "start"
  /\ ck' = [ck EXCEPT
       !.pc = "saved",
       !.files = IF ck.layout = "two_document"
                 THEN save_checkpoint(ck.last_completed_second, ck.clip_paths, ck.blacklist)
                 ELSE main_save_checkpoint(ck.last_completed_second, ck.clip_paths, ck.blacklist)]
  /\ UNCHANGED <<assembly, sp, rv, tl, an, ly, api>>

RoundTripLoad ==
  /\ ck.pc = "saved"
  /\ ck' = [ck EXCEPT
       !.pc = "loaded",
       !.loaded = IF ck.layout = "two_document"
                  THEN load_checkpoint(CheckpointDir, ck.files.checkpoint_json,
                                       ck.files.clip_list_json, ck.files.blacklist_json)
                  ELSE main_load_checkpoint(ck.files.checkpoint_json,
                                            ck.files.blacklist_json, ck.existing)]
  /\ UNCHANGED <<assembly, sp, rv, tl, an, ly, api>>

NextRoundTrip == RoundTripSave \/ RoundTripLoad

SpecRoundTrip == InitRoundTrip /\ [][NextRoundTrip]_vars

\* C11: in both layouts, what load_checkpoint returns after save_checkpoint is
\* the saved resume second, the saved clip-path list and the saved blacklist,
\* whichever of the listed clip files exist
C11_RoundTrip ==
  ck.pc = "loaded" =>
     ck.loaded = <<ck.last_completed_second, ck.clip_paths, ck.blacklist>>

(***************************************************************************)
(* The speed factor of a second, build_visual_track lines 913-926.         *)
(* A float is a record: kind "fin" with the rational num/den (den > 0),    *)
(* or kind "nan", "pinf", "ninf".                                          *)
(***************************************************************************)
\* longest bpm_values list, and longest duration of the speed loop
MaxBpmLen == 2

Fin(n, d) == [kind |-> "fin", num |-> n, den |-> d]
NaN == [kind |-> "nan", num |-> 0, den |-> 1]
PosInf == [kind |-> "pinf", num |-> 0, den |-> 1]
NegInf == [kind |-> "ninf", num |-> 0, den |-> 1]

speed_min == Fin(1, 2)
speed_max == Fin(2, 1)

\* the BPM values a second can carry and the base tempos
BpmSamples == {Fin(b, 1) : b \in {-60, 0, 30, 60, 120, 240, 300}} \cup {NaN, PosInf, NegInf}
BaseBpms == {Fin(b, 1) : b \in {60, 120}}

\* x < y on floats; every comparison with NaN is false
FloatLess(x, y) ==
  CASE x.kind = "nan" \/ y.kind = "nan" -> FALSE
    [] x.kind = "ninf" -> y.kind # "ninf"
    [] x.kind = "pinf" -> FALSE
    [] y.kind = "ninf" -> FALSE
    [] y.kind = "pinf" -> TRUE
    [] OTHER -> x.num * y.den < y.num * x.den

\* x / y for a finite y > 0
FloatDiv(x, y) ==
  IF x.kind = "fin" THEN Fin(x.num * y.den, x.den * y.num) ELSE x

\* np.clip(x, lo, hi) = minimum(maximum(x, lo), hi), NaN propagating
np_clip(x, lo, hi) ==
  IF x.kind = "nan" THEN x
  ELSE LET m == IF FloatLess(x, lo) THEN lo ELSE x
       IN  IF FloatLess(hi, m) THEN hi ELSE m

\* lines 914-916: the list padded to the duration
PadBpm(bpm_values, base_bpm, n) ==
  IF Len(bpm_values) < n
  THEN LET last_bpm == IF bpm_values # <<>> THEN bpm_values[Len(bpm_values)] ELSE base_bpm
       IN  bpm_values \o [i \in 1 .. n - Len(bpm_values) |-> last_bpm]
  ELSE bpm_values

\* lines 922-926, for second s (lists are 1-based here)
SpeedOf(bpm_values, base_bpm, s) ==
  LET local_bpm == IF s < Len(bpm_values) THEN bpm_values[s + 1] ELSE base_bpm
  IN  np_clip(FloatDiv(local_bpm, base_bpm), speed_min, speed_max)

InitSpeed ==
  /\ AssemblyIdle
  /\ ck = Off /\ rv = Off /\ tl = Off /\ an = Off /\ ly = Off /\ api = Off
  /\ sp \in [pc : {"start"},
             bpm_values : SeqsUpTo(BpmSamples, MaxBpmLen),
             base_bpm : BaseBpms,
             duration_seconds : 1 .. MaxBpmLen,
             sec : {0},
             local_bpm : {NaN},
             speed : {NaN}]

SpeedPad ==
  /\ sp.pc = "start"
  /\ sp' = [sp EXCEPT !.pc = "loop",
                      !.bpm_values = PadBpm(sp.bpm_values, sp.base_bpm, sp.duration_seconds)]
  /\ UNCHANGED <<assembly, ck, rv, tl, an, ly, api>>

SpeedSecond ==
  /\ sp.pc \in {"loop", "second"}
  /\ sp.sec < sp.duration_seconds
  /\ sp' = [sp EXCEPT !.pc = "second",
                      !.local_bpm = sp.bpm_values[sp.sec + 1],
                      !.speed = SpeedOf(sp.bpm_values, sp.base_bpm, sp.sec),
                      !.sec = sp.sec + 1]
  /\ UNCHANGED <<assembly, ck, rv, tl, an, ly, api>>

NextSpeed == SpeedPad \/ SpeedSecond

SpecSpeed == InitSpeed /\ [][NextSpeed]_vars

\* C12: whatever the local BPM of a second (zero, negative, non-finite
\* included) and for base_bpm > 0, the speed computed for the second is a
\* number between speed_min and speed_max
C12_SpeedInRange ==
  sp.pc = "second" =>
     /\ sp.speed.kind = "fin"
     /\ ~FloatLess(sp.speed, speed_min)
     /\ ~FloatLess(speed_max, sp.speed)

(***************************************************************************)
(* render_video, src/audiogiphy/render_pipeline.py, from the clamping of   *)
(* the duration to the final write.  The audio duration is counted in      *)
(* half seconds; build_visual_track is the list it returns, of any length. *)
(***************************************************************************)
AudioHalves == 1 .. 2 * MaxDuration + 1

\* int(audio_duration)
IntOfHalves(h) == h \div 2

\* line 146, negated: the clip count is the one asked for
CountAtLeast(paths, n) == Len(paths) >= n
CountMatches(paths, n) == Len(paths) = n

InitRender ==
  /\ AssemblyIdle
  /\ ck = Off /\ sp = Off /\ tl = Off /\ an = Off /\ ly = Off /\ api = Off
  /\ rv \in [pc : {"start"},
             audio_duration : AudioHalves,
             duration_seconds : Durations,
             clip_paths : {<<>>},
             concat_list : {None},
             ffmpeg_called : {FALSE},
             raised : {"none"}]

\* lines 83-86
RenderClamp ==
  /\ rv.pc = "start"
  /\ rv' = [rv EXCEPT
       !.pc = "analysed",
       !.duration_seconds = IF rv.audio_duration < 2 * rv.duration_seconds
                            THEN IntOfHalves(rv.audio_duration)
                            ELSE rv.duration_seconds]
  /\ UNCHANGED <<assembly, ck, sp, tl, an, ly, api>>

\* lines 135-144
RenderBuild ==
  /\ rv.pc = "analysed"
  /\ \E n \in 0 .. rv.duration_seconds + 1 :
       rv' = [rv EXCEPT !.pc = "built", !.clip_paths = AllClips(n)]
  /\ UNCHANGED <<assembly, ck, sp, tl, an, ly, api>>

\* lines 146-147
RenderCheck ==
  /\ rv.pc = "built"
  /\ rv' = IF CountMatches(rv.clip_paths, rv.duration_seconds)
           THEN [rv EXCEPT !.pc = "checked"]
           ELSE [rv EXCEPT !.pc = "raised", !.raised = "ValueError"]
  /\ UNCHANGED <<assembly, ck, sp, tl, an, ly, api>>

\* lines 154-157
RenderWriteConcatList ==
  /\ rv.pc = "checked"
  /\ rv' = [rv EXCEPT !.pc = "listed", !.concat_list = Some(rv.clip_paths)]
  /\ UNCHANGED <<assembly, ck, sp, tl, an, ly, api>>

\* lines 160-181
RenderConcat ==
  /\ rv.pc = "listed"
  /\ \E ok \in BOOLEAN :
       rv' = IF ok
             THEN [rv EXCEPT !.pc = "concatenated", !.ffmpeg_called = TRUE]
             ELSE [rv EXCEPT !.pc = "raised", !.ffmpeg_called = TRUE,
                             !.raised = "RuntimeError"]
  /\ UNCHANGED <<assembly, ck, sp, tl, an, ly, api>>

\* lines 184-212
RenderMux ==
  /\ rv.pc = "concatenated"
  /\ \E audio_exists \in BOOLEAN :
       rv' = IF audio_exists
             THEN [rv EXCEPT !.pc = "done"]
             ELSE [rv EXCEPT !.pc = "raised", !.raised = "FileNotFoundError"]
  /\ UNCHANGED <<assembly, ck, sp, tl, an, ly, api>>

NextRender ==
  \/ RenderClamp
  \/ RenderBuild
  \/ RenderCheck
  \/ RenderWriteConcatList
  \/ RenderConcat
  \/ RenderMux

SpecRender == InitRender /\ [][NextRender]_vars

\* C13: once render_video is past its check with a clip list whose length is
\* not duration_seconds, it has raised ValueError, the concat list is not
\* written and ffmpeg has not been called
C13_MismatchRaises ==
  (rv.pc \notin {"off", "start", "analysed", "built"}
     /\ Len(rv.clip_paths) # rv.duration_seconds) =>
        /\ rv.pc = "raised"
        /\ rv.raised = "ValueError"
        /\ rv.concat_list = None
        /\ ~rv.ffmpeg_called

C13_Witness ==
  /\ rv.pc = "raised"
  /\ rv.raised = "ValueError"
  /\ Len(rv.clip_paths) > rv.duration_seconds
  /\ rv.concat_list = None

(***************************************************************************)
(* src/audiogiphy/audio_analysis.py.  Times are floats in the code; here   *)
(* a time is a whole number of quarter seconds, so that the half second of *)
(* line 101 is two ticks.  BPM values are whole numbers.                   *)
(***************************************************************************)
TicksPerSecond == 4
DEFAULT_BPM_FALLBACK == 120

BpmSegment(start, end, bpm) == [start |-> start, end |-> end, bpm |-> bpm]

(* ------------------------------------------- bpm_timeline_from_segments *)
\* longest timeline in seconds, and most segments handed to it
MaxTimeline == 2
MaxSegments == 2

\* segment boundaries: every half second up to past the end of the timeline
SegmentTimes == {(TicksPerSecond \div 2) * k : k \in 0 .. MaxTimeline + 1}
SegmentBpms == {100, 140}
AnySegments ==
  SeqsUpTo({BpmSegment(a, b, v) : a \in SegmentTimes, b \in SegmentTimes, v \in SegmentBpms},
           MaxSegments)

\* line 201
CoversClosed(seg, time) == seg.start <= time /\ time <= seg.end
Covers(seg, time) == seg.start <= time /\ time < seg.end

\* lines 199-203: the scan of the list from position i, stopping at the
\* first segment that covers `time`
RECURSIVE ScanSegments(_, _, _, _)
ScanSegments(segments, i, time, bpm_for_t) ==
  IF i > Len(segments) THEN bpm_for_t
  ELSE IF Covers(segments[i], time) THEN segments[i].bpm
  ELSE ScanSegments(segments, i + 1, time, bpm_for_t)

bpm_timeline_from_segments(segments, n) ==
  IF segments = <<>>
  THEN [t \in 1 .. n |-> DEFAULT_BPM_FALLBACK]
  ELSE [t \in 1 .. n |->
          ScanSegments(segments, 1, (t - 1) * TicksPerSecond,
                       segments[Len(segments)].bpm)]

InitTimeline ==
  /\ AssemblyIdle
  /\ ck = Off /\ sp = Off /\ rv = Off /\ an = Off /\ ly = Off /\ api = Off
  /\ tl \in [pc : {"start"},
             segments : AnySegments,
             duration_seconds : 0 .. MaxTimeline,
             bpm_values : {<<>>}]

TimelineExpand ==
  /\ tl.pc = "start"
  /\ tl' = [tl EXCEPT !.pc = "done",
                      !.bpm_values = bpm_timeline_from_segments(tl.segments, tl.duration_seconds)]
  /\ UNCHANGED <<assembly, ck, sp, rv, an, ly, api>>

NextTimeline == TimelineExpand

SpecTimeline == InitTimeline /\ [][NextTimeline]_vars

\* C14: the timeline has duration_seconds values; the value at second t is
\* the BPM of the first segment in list order with start <= t < end, of the
\* last segment when none contains t, and 120 when the list is empty
C14_TimelineValues ==
  tl.pc = "done" =>
    /\ Len(tl.bpm_values) = tl.duration_seconds
    /\ \A t \in 0 .. tl.duration_seconds - 1 :
         LET time == t * TicksPerSecond
             containing == {i \in 1 .. Len(tl.segments) :
                              tl.segments[i].start <= time /\ time < tl.segments[i].end}
             value == tl.bpm_values[t + 1]
         IN  /\ tl.segments = <<>> => value = 120
             /\ (tl.segments # <<>> /\ containing = {}) =>
                   value = tl.segments[Len(tl.segments)].bpm
             /\ containing # {} =>
                   \E i \in containing :
                      /\ \A j \in containing : i <= j
                      /\ value = tl.segments[i].bpm

\* two overlapping segments of different BPM, the second ending where a
\* second of the timeline begins
C14_Witness ==
  /\ tl.pc = "done"
  /\ tl.duration_seconds = MaxTimeline
  /\ Len(tl.segments) = 2
  /\ tl.segments[1].bpm # tl.segments[2].bpm
  /\ Covers(tl.segments[1], 0) /\ Covers(tl.segments[2], 0)
  /\ tl.segments[1].end = TicksPerSecond
  /\ tl.segments[2].end = TicksPerSecond

(* ------------------------------ analyze_bpm_segments, analyze_global_bpm *)
\* longest audio, in ticks, analysed with small hops and windows, and most
\* windows of an audio analysed with the default hop and window
MaxAudioTicks == 6
MaxDefaultWindows == 3

BPM_WINDOW_SECONDS == 8
BPM_HOP_SECONDS == 4
min_bpm == Fin(60, 1)
max_bpm == Fin(180, 1)
change_threshold == Fin(5, 2)

DefaultWindow == BPM_WINDOW_SECONDS * TicksPerSecond
DefaultHop == BPM_HOP_SECONDS * TicksPerSecond

\* what librosa.beat.tempo gives for a window: NaN stands for every
\* no-signal outcome of lines 109-133
Tempos == {NaN, Fin(30, 1), Fin(120, 1), Fin(122, 1), Fin(124, 1)}

\* the arguments of a call and the audio file they name
AnalysisInputs ==
  [file_exists : BOOLEAN,
   total_duration : 0 .. MaxAudioTicks,
   hop_seconds : {-2, 0, 2, 3},
   window_seconds : {-4, 0, 1, 2, 4}]
  \cup
  [file_exists : {TRUE},
   total_duration : {(DefaultHop \div 2) * k : k \in 1 .. 2 * MaxDefaultWindows},
   hop_seconds : {DefaultHop},
   window_seconds : {DefaultWindow}]

IsFinite(x) == x.kind = "fin"

Min(a, b) == IF a < b THEN a ELSE b
Max(a, b) == IF a > b THEN a ELSE b

\* int(np.ceil(total_duration / hop_seconds)), hop_seconds > 0
NStepsFloor(total_duration, hop) == total_duration \div hop
NSteps(total_duration, hop) == (total_duration + hop - 1) \div hop

\* lines 99-101: the window at step i is shorter than half a second
TooShort(i, hop, window, total_duration) ==
  LET window_start == i * hop
      end_sec == Min(window_start + window, total_duration)
  IN  2 * (end_sec - window_start) < TicksPerSecond

\* lines 129-133
WindowBpm(tempo) ==
  IF IsFinite(tempo) THEN np_clip(tempo, min_bpm, max_bpm) ELSE NaN

\* lines 142-143 and 145-146: one step of a fill
FillAlways(this, neighbour) ==
  IF IsFinite(neighbour) THEN neighbour ELSE this
FillFrom(this, neighbour) ==
  IF ~IsFinite(this) /\ IsFinite(neighbour) THEN neighbour ELSE this

\* lines 141-143, in place, from position i (1-based) upwards
RECURSIVE ForwardFill(_, _)
ForwardFill(window_bpm, i) ==
  IF i > Len(window_bpm) THEN window_bpm
  ELSE ForwardFill([window_bpm EXCEPT ![i] = FillFrom(window_bpm[i], window_bpm[i - 1])],
                   i + 1)

\* lines 144-146, in place, from position i downwards
RECURSIVE BackwardFill(_, _)
BackwardFill(window_bpm, i) ==
  IF i < 1 THEN window_bpm
  ELSE BackwardFill([window_bpm EXCEPT ![i] = FillFrom(window_bpm[i], window_bpm[i + 1])],
                    i - 1)

\* line 149
FiniteBpms(window_bpm) == SelectSeq(window_bpm, IsFinite)

\* the k-th smallest of a list of finite values
KthSmallest(list, k) ==
  CHOOSE x \in {list[j] : j \in 1 .. Len(list)} :
    /\ Cardinality({j \in 1 .. Len(list) : FloatLess(list[j], x)}) < k
    /\ k <= Cardinality({j \in 1 .. Len(list) : ~FloatLess(x, list[j])})

\* np.median of a non-empty list of finite values
Median(list) ==
  LET n == Len(list)
  IN  IF n % 2 = 1 THEN KthSmallest(list, (n + 1) \div 2)
      ELSE LET a == KthSmallest(list, n \div 2)
               b == KthSmallest(list, n \div 2 + 1)
           IN  IF a = b THEN a
               ELSE Fin(a.num * b.den + b.num * a.den, 2 * a.den * b.den)

\* line 154
ReplaceNaN(window_bpm, global_bpm) ==
  [i \in 1 .. Len(window_bpm) |->
     IF IsFinite(window_bpm[i]) THEN window_bpm[i] ELSE global_bpm]

\* line 150
NoSegments(total_duration) == <<>>
DefaultSegments(total_duration) ==
  <<BpmSegment(0, total_duration, Fin(DEFAULT_BPM_FALLBACK, 1))>>

\* line 164: abs(this_bpm - current_bpm) > change_threshold
Changed(this_bpm, current_bpm) ==
  LET d == this_bpm.num * current_bpm.den - current_bpm.num * this_bpm.den
      abs == IF d < 0 THEN -d ELSE d
  IN  FloatLess(change_threshold, Fin(abs, this_bpm.den * current_bpm.den))

\* line 170
LastSegmentOpen(current_start, total_duration, current_bpm) ==
  BpmSegment(current_start, current_start, current_bpm)
LastSegment(current_start, total_duration, current_bpm) ==
  BpmSegment(current_start, total_duration, current_bpm)

\* lines 161-170, from window i on
RECURSIVE BuildSegments(_, _, _, _, _, _, _)
BuildSegments(window_starts, window_bpm, i, current_start, current_bpm, segments, total_duration) ==
  IF i > Len(window_bpm)
  THEN Append(segments, LastSegment(current_start, total_duration, current_bpm))
  ELSE IF Changed(window_bpm[i], current_bpm)
       THEN BuildSegments(window_starts, window_bpm, i + 1, window_starts[i], window_bpm[i],
                          Append(segments,
                                 BpmSegment(current_start, window_starts[i], current_bpm)),
                          total_duration)
       ELSE BuildSegments(window_starts, window_bpm, i + 1, current_start, current_bpm,
                          segments, total_duration)

\* line 256, in fortieths of a second: max(0.1, s.end - s.start)
Weight(seg) == Max(4, 10 * (seg.end - seg.start))

RECURSIVE SumSeq(_)
SumSeq(q) == IF q = <<>> THEN 0 ELSE Head(q) + SumSeq(Tail(q))

\* np.argmax: the position of the first greatest value (1-based)
ArgMaxLast(w) ==
  CHOOSE i \in 1 .. Len(w) :
    /\ \A j \in 1 .. Len(w) : ~FloatLess(w[i], w[j])
    /\ \A j \in i + 1 .. Len(w) : FloatLess(w[j], w[i])
ArgMax(w) ==
  CHOOSE i \in 1 .. Len(w) :
    /\ \A j \in 1 .. Len(w) : ~FloatLess(w[i], w[j])
    /\ \A j \in 1 .. i - 1 : FloatLess(w[j], w[i])

\* lines 251-263
GlobalBpmOf(segments) ==
  IF segments = <<>> THEN Fin(DEFAULT_BPM_FALLBACK, 1)
  ELSE LET weights == [i \in 1 .. Len(segments) |-> Weight(segments[i])]
           total == SumSeq(weights)
           w == [i \in 1 .. Len(segments) |-> Fin(weights[i], total)]
       IN  segments[ArgMax(w)].bpm

InitAnalysis ==
  /\ AssemblyIdle
  /\ ck = Off /\ sp = Off /\ rv = Off /\ tl = Off /\ ly = Off /\ api = Off
  /\ \E args \in AnalysisInputs :
       an = [pc |-> "start",
             file_exists |-> args.file_exists,
             total_duration |-> args.total_duration,
             hop_seconds |-> args.hop_seconds,
             window_seconds |-> args.window_seconds,
             n_steps |-> 0,
             i |-> 0,
             window_starts |-> <<>>,
             estimates |-> <<>>,
             window_bpm |-> <<>>,
             segments |-> <<>>,
             global_bpm |-> NaN,
             raised |-> "none"]

\* lines 77-96
AnalyzeValidate ==
  /\ an.pc = "start"
  /\ an' = IF ~an.file_exists
           THEN [an EXCEPT !.pc = "raised", !.raised = "FileNotFoundError"]
           ELSE IF an.total_duration <= 0 \/ an.hop_seconds <= 0
           THEN [an EXCEPT !.pc = "raised", !.raised = "ValueError"]
           ELSE [an EXCEPT !.pc = "windows",
                           !.n_steps = NSteps(an.total_duration, an.hop_seconds)]
  /\ UNCHANGED <<assembly, ck, sp, rv, tl, ly, api>>

LoopEnds ==
  \/ an.i >= an.n_steps
  \/ TooShort(an.i, an.hop_seconds, an.window_seconds, an.total_duration)

\* lines 98-137: one window
AnalyzeWindow ==
  /\ an.pc = "windows"
  /\ ~LoopEnds
  /\ \E tempo \in Tempos :
       an' = [an EXCEPT !.i = an.i + 1,
                        !.window_starts = Append(an.window_starts, an.i * an.hop_seconds),
                        !.estimates = Append(an.estimates, WindowBpm(tempo)),
                        !.window_bpm = Append(an.window_bpm, WindowBpm(tempo))]
  /\ UNCHANGED <<assembly, ck, sp, rv, tl, ly, api>>

\* lines 139-154
AnalyzeFill ==
  /\ an.pc = "windows"
  /\ LoopEnds
  /\ LET forward == ForwardFill(an.window_bpm, 2)
         filled == BackwardFill(forward, Len(forward) - 1)
         finite_bpms == FiniteBpms(filled)
     IN  an' = IF finite_bpms = <<>>
               THEN [an EXCEPT !.pc = "returned", !.window_bpm = filled,
                               !.segments = DefaultSegments(an.total_duration)]
               ELSE [an EXCEPT !.pc = "filled",
                               !.window_bpm = ReplaceNaN(filled, Median(finite_bpms))]
  /\ UNCHANGED <<assembly, ck, sp, rv, tl, ly, api>>

\* lines 156-172
AnalyzeSegments ==
  /\ an.pc = "filled"
  /\ an' = [an EXCEPT !.pc = "returned",
                      !.segments = BuildSegments(an.window_starts, an.window_bpm, 2,
                                                 an.window_starts[1], an.window_bpm[1],
                                                 <<>>, an.total_duration)]
  /\ UNCHANGED <<assembly, ck, sp, rv, tl, ly, api>>

\* analyze_global_bpm, lines 251-263, on the segments of a call with the
\* default window and hop
AnalyzeGlobal ==
  /\ an.pc = "returned"
  /\ an.hop_seconds = DefaultHop /\ an.window_seconds = DefaultWindow
  /\ an' = [an EXCEPT !.pc = "global", !.global_bpm = GlobalBpmOf(an.segments)]
  /\ UNCHANGED <<assembly, ck, sp, rv, tl, ly, api>>

NextAnalysis ==
  \/ AnalyzeValidate
  \/ AnalyzeWindow
  \/ AnalyzeFill
  \/ AnalyzeSegments
  \/ AnalyzeGlobal

SpecAnalysis == InitAnalysis /\ [][NextAnalysis]_vars

Returned == an.pc \in {"returned", "global"}

\* C15: the segments analyze_bpm_segments returns start at 0, end at
\* total_duration, each ends where the next starts, and each has start < end
C15_SegmentsContiguous ==
  Returned =>
    LET s == an.segments
    IN  /\ Len(s) >= 1
        /\ s[1].start = 0
        /\ s[Len(s)].end = an.total_duration
        /\ \A k \in 1 .. Len(s) - 1 : s[k].end = s[k + 1].start
        /\ \A k \in 1 .. Len(s) : s[k].start < s[k].end

\* several segments, the last one shorter than a hop
C15_Witness ==
  /\ Returned
  /\ Len(an.segments) >= 2
  /\ an.total_duration % an.hop_seconds # 0

\* C16: a segment starts at window i exactly when the gap-filled BPM of
\* window i differs from that of window i-1 by more than change_threshold
C16_SplitsOnConsecutiveDifference ==
  (Returned /\ FiniteBpms(an.window_bpm) # <<>>) =>
     \A i \in 2 .. Len(an.window_bpm) :
        (\E k \in 2 .. Len(an.segments) : an.segments[k].start = an.window_starts[i])
          <=> Changed(an.window_bpm[i], an.window_bpm[i - 1])

\* C17: when some window has a finite estimate, after the fills every window
\* is finite, a finite estimate is kept, a no-signal window after a finite
\* one takes the nearest finite estimate before it, and a leading no-signal
\* window takes the first finite estimate
C17_GapFilling ==
  (an.pc \in {"filled", "returned", "global"} /\ FiniteBpms(an.estimates) # <<>>) =>
     \A i \in 1 .. Len(an.estimates) :
        LET before == {j \in 1 .. i - 1 : an.estimates[j].kind = "fin"}
            finite == {j \in 1 .. Len(an.estimates) : an.estimates[j].kind = "fin"}
            value == an.window_bpm[i]
        IN  /\ value.kind = "fin"
            /\ i \in finite => value = an.estimates[i]
            /\ (i \notin finite /\ before # {}) =>
                  \E j \in before : (\A m \in before : m <= j) /\ value = an.estimates[j]
            /\ (i \notin finite /\ before = {}) =>
                  \E j \in finite : (\A m \in finite : j <= m) /\ value = an.estimates[j]

\* a leading gap, two different finite estimates and a gap after them
C17_Witness ==
  /\ an.pc = "filled"
  /\ Len(an.estimates) >= 3
  /\ an.estimates[1].kind = "nan"
  /\ \E i, j \in 2 .. Len(an.estimates) :
       /\ i < j
       /\ an.estimates[i].kind = "fin"
       /\ an.estimates[j].kind = "fin"
       /\ an.estimates[i] # an.estimates[j]

\* C18: with an existing file, total_duration > 0 and hop_seconds > 0, when
\* no window gave a finite estimate (all no-signal, or none analysed) the call
\* raises nothing and returns the one segment (0, total_duration, 120)
C18_NoEstimateGivesDefault ==
  (/\ an.pc \in {"filled", "returned", "global", "raised"}
   /\ an.file_exists /\ an.total_duration > 0 /\ an.hop_seconds > 0
   /\ \A i \in 1 .. Len(an.estimates) : an.estimates[i].kind # "fin") =>
     /\ Returned
     /\ an.raised = "none"
     /\ an.segments = <<[start |-> 0, end |-> an.total_duration,
                         bpm |-> [kind |-> "fin", num |-> 120, den |-> 1]]>>

\* several windows, all of them no-signal
C18_Witness ==
  /\ Returned
  /\ Len(an.estimates) >= 2
  /\ \A i \in 1 .. Len(an.estimates) : an.estimates[i].kind = "nan"

C20_FailsFast ==
  (/\ an.pc \in {"returned", "global", "raised"}
   /\ \/ ~an.file_exists
      \/ an.total_duration <= 0
      \/ an.hop_seconds <= 0
      \/ an.window_seconds <= 0) =>
     /\ an.pc = "raised"
     /\ an.segments = <<>>
     /\ ~an.file_exists => an.raised = "FileNotFoundError"
     /\ (an.file_exists /\ (an.total_duration <= 0 \/ an.hop_seconds <= 0)) =>
           an.raised = "ValueError"

\* C21: ten seconds analysed with window 8 and hop 4, every window giving
\* the same BPM b: the windows start at 0, 4 and 8, the one segment
\* (0, 10, b) is returned, the timeline of ten seconds is ten times b, and
\* analyze_global_bpm returns b
C21_ConstantTempoScenario ==
  (/\ Returned
   /\ an.total_duration = 10 * TicksPerSecond
   /\ an.window_seconds = 8 * TicksPerSecond
   /\ an.hop_seconds = 4 * TicksPerSecond
   /\ \A i \in 1 .. Len(an.estimates) :
        an.estimates[i].kind = "fin" /\ an.estimates[i] = an.estimates[1]) =>
     LET b == an.estimates[1]
     IN  /\ an.window_starts = <<0, 4 * TicksPerSecond, 8 * TicksPerSecond>>
         /\ an.segments = <<[start |-> 0, end |-> 10 * TicksPerSecond, bpm |-> b]>>
         /\ bpm_timeline_from_segments(an.segments, 10)
              = [t \in 1 .. 10 |-> b]
         /\ an.pc = "global" => an.global_bpm = b

C21_Witness ==
  /\ an.pc = "global"
  /\ an.total_duration = 10 * TicksPerSecond
  /\ Len(an.estimates) = 3
  /\ an.global_bpm = [kind |-> "fin", num |-> 122, den |-> 1]
  /\ \A i \in 1 .. 3 : an.estimates[i] = an.global_bpm

(***************************************************************************)
(* src/audiogiphy/lyrics_overlays.py.  Times are whole numbers of quarter  *)
(* seconds, as above.  A mapping is a function from the seconds that have  *)
(* a key.                                                                  *)
(***************************************************************************)
\* longest video in seconds, and most anchors handed to map_anchors_to_seconds
MaxLyricSeconds == 2
MaxAnchors == 2

EmptyMapping == [s \in {} |-> ""]

\* mapping[k] = v
Put(mapping, k, v) ==
  [s \in DOMAIN mapping \cup {k} |-> IF s = k THEN v ELSE mapping[s]]

\* int(x) of a float: towards zero
IntOf(ticks) ==
  IF ticks >= 0 THEN ticks \div TicksPerSecond
  ELSE -((-ticks) \div TicksPerSecond)

(* ------------------------------------------------ map_anchors_to_seconds *)
\* anchor times: half a second before zero, then every half second up to
\* the end of the longest video
AnchorTimes ==
  {-(TicksPerSecond \div 2)} \cup
  {(TicksPerSecond \div 2) * k : k \in 0 .. 2 * MaxLyricSeconds}

AnyAnchors ==
  SeqsUpTo([word : {"la", "na"}, time_end_sec : AnchorTimes], MaxAnchors)

\* line 286, second disjunct: time_end > time_tracking.get(second_index, 0.0)
LaterAlways(time_end, time_tracking, second_index) == TRUE
Later(time_end, time_tracking, second_index) ==
  time_end > (IF second_index \in DOMAIN time_tracking
              THEN time_tracking[second_index] ELSE 0)

InitAnchors ==
  /\ AssemblyIdle
  /\ FunctionsOffBut("ly")
  /\ ly \in [pc : {"loop"},
             anchors : AnyAnchors,
             duration_seconds : 0 .. MaxLyricSeconds,
             i : {1},
             mapping : {EmptyMapping},
             time_tracking : {[s \in {} |-> 0]}]

\* lines 276-293: one anchor
MapAnchor ==
  /\ ly.pc = "loop"
  /\ ly.i <= Len(ly.anchors)
  /\ LET time_end == ly.anchors[ly.i].time_end_sec
         word == ly.anchors[ly.i].word
         second_index == IntOf(time_end)
         keep == /\ 0 <= second_index /\ second_index < ly.duration_seconds
                 /\ \/ second_index \notin DOMAIN ly.mapping
                    \/ Later(time_end, ly.time_tracking, second_index)
     IN  ly' = IF keep
               THEN [ly EXCEPT !.i = ly.i + 1,
                               !.mapping = Put(ly.mapping, second_index, word),
                               !.time_tracking = Put(ly.time_tracking, second_index, time_end)]
               ELSE [ly EXCEPT !.i = ly.i + 1]
  /\ UNCHANGED <<assembly, ck, sp, rv, tl, an, api>>

\* lines 295-298
MapReturn ==
  /\ ly.pc = "loop"
  /\ ly.i > Len(ly.anchors)
  /\ ly' = [ly EXCEPT !.pc = "returned"]
  /\ UNCHANGED <<assembly, ck, sp, rv, tl, an, api>>

NextAnchors == MapAnchor \/ MapReturn

SpecAnchors == InitAnchors /\ [][NextAnchors]_vars

\* C22: the keys of the mapping are the seconds s, 0 <= s < duration_seconds,
\* that are int(time_end_sec) of some anchor, and mapping[s] is the word of
\* an anchor of greatest time_end_sec among the anchors of second s
C22_LatestAnchorWins ==
  ly.pc = "returned" =>
    LET InSecond(j, s) ==
          LET t == ly.anchors[j].time_end_sec
          IN  IF s = 0 THEN -TicksPerSecond < t /\ t < TicksPerSecond
              ELSE s * TicksPerSecond <= t /\ t < (s + 1) * TicksPerSecond
        Of(s) == {j \in 1 .. Len(ly.anchors) : InSecond(j, s)}
    IN  /\ DOMAIN ly.mapping = {s \in 0 .. ly.duration_seconds - 1 : Of(s) # {}}
        /\ \A s \in DOMAIN ly.mapping :
             \E j \in Of(s) :
               /\ ly.mapping[s] = ly.anchors[j].word
               /\ \A m \in Of(s) :
                    ly.anchors[m].time_end_sec <= ly.anchors[j].time_end_sec

\* two anchors of one second, the later one first in the list
C22_Witness ==
  /\ ly.pc = "returned"
  /\ Len(ly.anchors) = 2
  /\ ly.anchors[1].word # ly.anchors[2].word
  /\ ly.anchors[2].time_end_sec < ly.anchors[1].time_end_sec
  /\ DOMAIN ly.mapping = {1}
  /\ ly.mapping[1] = ly.anchors[1].word

(* ------------------------------------------------- build_karaoke_mapping *)
\* most words in the lyrics file
MaxWords == 2

\* a text is the sequence of its characters
WordTexts == {<<>>, <<" ">>, <<"l", "a">>, <<" ", "n", "a">>}

\* <<start, end>> of a word: within a second, across seconds, ending on a
\* second, and one that ends before it starts
WordSpans ==
  {<<0, 2>>, <<0, 4>>, <<0, 9>>, <<2, 4>>, <<2, 9>>, <<4, 9>>, <<2, 1>>}

AnyWords ==
  SeqsUpTo({[word |-> t, start |-> span[1], end |-> span[2]] :
              t \in WordTexts, span \in WordSpans}, MaxWords)

IsSpace(c) == c = " "

\* str.strip()
RECURSIVE LStrip(_)
LStrip(text) ==
  IF text # <<>> /\ IsSpace(Head(text)) THEN LStrip(Tail(text)) ELSE text

RECURSIVE RStrip(_)
RStrip(text) ==
  IF text # <<>> /\ IsSpace(text[Len(text)])
  THEN RStrip(SubSeq(text, 1, Len(text) - 1))
  ELSE text

Strip(text) == RStrip(LStrip(text))

\* str.upper()
UpperChar(c) ==
  CASE c = "a" -> "A"
    [] c = "l" -> "L"
    [] c = "n" -> "N"
    [] OTHER -> c

Upper(text) == [i \in 1 .. Len(text) |-> UpperChar(text[i])]

\* " ".join(texts)
RECURSIVE Join(_)
Join(texts) ==
  IF texts = <<>> THEN <<>>
  ELSE IF Len(texts) = 1 THEN texts[1]
  ELSE texts[1] \o <<" ">> \o Join(Tail(texts))

\* line 349: start < s + 1 and end > s
IntersectsClosed(start, end, s) ==
  start <= (s + 1) * TicksPerSecond /\ end >= s * TicksPerSecond
Intersects(start, end, s) ==
  start < (s + 1) * TicksPerSecond /\ end > s * TicksPerSecond

\* lines 343-352: the <<start, word_text>> pairs of second s, from word i on
RECURSIVE WordsInSecond(_, _, _)
WordsInSecond(words, i, s) ==
  IF i > Len(words) THEN <<>>
  ELSE LET word_text == Strip(words[i].word)
       IN  IF Intersects(words[i].start, words[i].end, s) /\ word_text # <<>>
           THEN <<<<words[i].start, word_text>>>> \o WordsInSecond(words, i + 1, s)
           ELSE WordsInSecond(words, i + 1, s)

\* list.sort(key=lambda x: x[0]): stable, by insertion from the left
RECURSIVE InsertByStart(_, _)
InsertByStart(sorted, pair) ==
  IF sorted = <<>> THEN <<pair>>
  ELSE IF pair[1] < Head(sorted)[1] THEN <<pair>> \o sorted
  ELSE <<Head(sorted)>> \o InsertByStart(Tail(sorted), pair)

RECURSIVE SortByStart(_)
SortByStart(pairs) ==
  IF pairs = <<>> THEN <<>>
  ELSE InsertByStart(SortByStart(SubSeq(pairs, 1, Len(pairs) - 1)), pairs[Len(pairs)])

\* line 359
TextLine(pairs) == Join([i \in 1 .. Len(pairs) |-> Upper(pairs[i][2])])

InitKaraoke ==
  /\ AssemblyIdle
  /\ FunctionsOffBut("ly")
  /\ ly \in [pc : {"start"},
             file : {"missing", "invalid"},
             words : {<<>>},
             duration_seconds : 0 .. MaxLyricSeconds,
             s : {0},
             mapping : {EmptyMapping},
             raised : {"none"}]
            \cup
            [pc : {"start"},
             file : {"ok"},
             words : AnyWords,
             duration_seconds : 0 .. MaxLyricSeconds,
             s : {0},
             mapping : {EmptyMapping},
             raised : {"none"}]

\* lines 320-337
KaraokeLoad ==
  /\ ly.pc = "start"
  /\ ly' = CASE ly.file = "missing" ->
                  [ly EXCEPT !.pc = "raised", !.raised = "FileNotFoundError"]
             [] ly.file = "invalid" ->
                  [ly EXCEPT !.pc = "raised", !.raised = "ValueError"]
             [] OTHER ->
                  IF ly.words = <<>> THEN [ly EXCEPT !.pc = "returned"]
                  ELSE [ly EXCEPT !.pc = "loop"]
  /\ UNCHANGED <<assembly, ck, sp, rv, tl, an, api>>

\* lines 340-361: one second
KaraokeSecond ==
  /\ ly.pc = "loop"
  /\ ly.s < ly.duration_seconds
  /\ LET words_in_second == SortByStart(WordsInSecond(ly.words, 1, ly.s))
     IN  ly' = IF words_in_second # <<>>
               THEN [ly EXCEPT !.s = ly.s + 1,
                               !.mapping = Put(ly.mapping, ly.s, TextLine(words_in_second))]
               ELSE [ly EXCEPT !.s = ly.s + 1]
  /\ UNCHANGED <<assembly, ck, sp, rv, tl, an, api>>

\* lines 363-368
KaraokeReturn ==
  /\ ly.pc = "loop"
  /\ ly.s >= ly.duration_seconds
  /\ ly' = [ly EXCEPT !.pc = "returned"]
  /\ UNCHANGED <<assembly, ck, sp, rv, tl, an, api>>

NextKaraoke == KaraokeLoad \/ KaraokeSecond \/ KaraokeReturn

SpecKaraoke == InitKaraoke /\ [][NextKaraoke]_vars

\* the words of second s whose text passes Shown, in every order of
\* non-decreasing start, each as the text line Line gives
KaraokeLines(s, Shown(_), Line(_)) ==
  LET hits == {j \in 1 .. Len(ly.words) :
                 /\ Shown(ly.words[j].word)
                 /\ ly.words[j].start < (s + 1) * TicksPerSecond
                 /\ ly.words[j].end > s * TicksPerSecond}
      n == Cardinality(hits)
      orders == {q \in [1 .. n -> hits] :
                   /\ \A a, b \in 1 .. n : a # b => q[a] # q[b]
                   /\ \A a \in 1 .. n - 1 :
                        ly.words[q[a]].start <= ly.words[q[a + 1]].start}
  IN  {Join([a \in 1 .. n |-> Line(ly.words[q[a]].word)]) : q \in orders}

NonEmpty(text) == text # <<>>
NonBlank(text) == Strip(text) # <<>>
StrippedUpper(text) == Upper(Strip(text))

C24_AttemptsDrawOutsideBlacklist ==
  [][/\ (pc = "select" /\ attempt' = attempt + 1 /\ Candidates(bank, blacklist) # {})
           => blacklist' # blacklist
     /\ (pc = "select" /\ pc' = "process" /\ ~video_clip') =>
           \/ attempt' = max_tries
           \/ Candidates(bank, blacklist') = {}]_vars

\* C25: a call that loads a clip list whose length differs from the loaded
\* last_completed_second starts over: it enters the loop at second 0 with an
\* empty clip list
C25_InconsistentStateRestarts ==
  [][LET loaded == load_checkpoint(CheckpointDir, checkpoint_json,
                                   clip_list_json, blacklist_json)
     IN  (/\ calls' = calls + 1
          /\ folder_exists
          /\ Candidates(bank, load_blacklist(blacklist_json) \cup loaded[3]) # {}
          /\ Len(loaded[2]) # loaded[1]) =>
            /\ pc' = "select"
            /\ sec' = 0
            /\ clip_paths' = <<>>]_vars

\* C26: for a second whose local BPM is non-finite or <= 0 the speed is
\* exactly 1 (base_bpm is substituted); for every other second it is
\* local_bpm / base_bpm clamped to [speed_min, speed_max]
C26_RetimeSubstitutesBase ==
  sp.pc = "second" =>
    LET b == sp.local_bpm
        base == sp.base_bpm
        v == sp.speed
    IN  /\ v.kind = "fin"
        /\ IF b.kind # "fin" \/ b.num <= 0
           THEN v.num = v.den
           ELSE IF 2 * b.num * base.den < base.num * b.den
           THEN 2 * v.num = v.den
           ELSE IF b.num * base.den > 2 * base.num * b.den
           THEN v.num = 2 * v.den
           ELSE v.num * base.num * b.den = b.num * base.den * v.den

\* C27: when the clip of an opened asset is replaced by the black frame
\* because processing it raised, or because writing it raised, the asset's
\* name is in the blacklist when the second ends; and no asset whose name is
\* in the blacklist is selected afterwards
C27_FailedAssetIsBlacklisted ==
  [][/\ (pc = "process" /\ video_clip /\ one_sec' = "blank") =>
           video_path \in blacklist'
     /\ (pc = "write" /\ one_sec = "asset" /\ sec \in written'
           /\ clip_files'[sec] = "blank") =>
           video_path \in blacklist'
     /\ (pc = "select" /\ video_clip') => video_path' \notin blacklist]_vars

C29_BlacklistInvariant ==
  [][/\ calls' = calls => blacklist \subseteq blacklist'
     /\ (calls' = calls + 1 /\ folder_exists /\ blacklist_json.state = "ok") =>
           blacklist_json.data \subseteq blacklist'
     /\ (pc = "select" /\ (video_clip' \/ blacklist' # blacklist)) =>
           video_path' \notin blacklist
     /\ (pc = "save_open_blacklist" /\ pc' = "save_dump_blacklist"
           /\ blacklist_json.state = "ok") =>
           blacklist_json.data \subseteq blacklist
     /\ (pc = "save_dump_blacklist" /\ pc' # "killed") =>
           blacklist_json' = [state |-> "ok", data |-> blacklist]]_vars

\* a second save of the run has rewritten a blacklist.json that held names
C29_Witness ==
  /\ pc = "done"
  /\ Cardinality(saves) = 2
  /\ blacklist # {}
  /\ blacklist_json = [state |-> "ok", data |-> blacklist]

(***************************************************************************)
(* src/audiogiphy/api.py: one render job (run_render_job, with the         *)
(* LogCaptureHandler that fills job_logs[job_id]) and one client of        *)
(* stream_logs for that job.  Messages are numbered in capture order, so   *)
(* the deque of the job holds the numbers oldest .. captured: an append to *)
(* a full deque drops the oldest.  Every block under job_lock is one step; *)
(* the generator yields inside the lock, so a pass of the client is not    *)
(* interleaved with the job.                                               *)
(***************************************************************************)
\* messages the job logs while it is modelled
MaxMessages == 2

max_logs == 1000

\* messages the job has logged before the client is looked at
PreBuffered == {0, 1, max_logs - 1, max_logs}

\* len(job_logs[job_id]) and list(job_logs[job_id])[i]
DequeLen == api.captured - api.oldest + 1
DequeAt(i) == api.oldest + i

\* deque.append on deque(maxlen=max_logs)
DequeAppend ==
  [api EXCEPT !.captured = api.captured + 1,
              !.oldest = IF DequeLen >= max_logs THEN api.oldest + 1 ELSE api.oldest]

InitApi ==
  /\ AssemblyIdle
  /\ FunctionsOffBut("api")
  /\ \E n \in PreBuffered :
       api = [status |-> IF n = 0 THEN "queued" ELSE "running",
              captured |-> n,
              oldest |-> 1,
              logged |-> 0,
              pc |-> "idle",
              at_connect |-> 0,
              last_count |-> 0,
              sent |-> <<>>]

\* run_render_job, lines 56-57
JobStart ==
  /\ api.status = "queued"
  /\ api' = [api EXCEPT !.status = "running"]
  /\ UNCHANGED <<assembly, ck, sp, rv, tl, an, ly>>

\* LogCaptureHandler.emit, lines 41-50, called by render_video
JobLog ==
  /\ api.status = "running"
  /\ api.logged < MaxMessages
  /\ api' = [DequeAppend EXCEPT !.logged = api.logged + 1]
  /\ UNCHANGED <<assembly, ck, sp, rv, tl, an, ly>>

\* lines 87-89: render_video returned
JobComplete ==
  /\ api.status = "running"
  /\ api' = [api EXCEPT !.status = "complete"]
  /\ UNCHANGED <<assembly, ck, sp, rv, tl, an, ly>>

\* lines 91-97: render_video raised
JobError ==
  /\ api.status = "running"
  /\ api' = [DequeAppend EXCEPT !.status = "error"]
  /\ UNCHANGED <<assembly, ck, sp, rv, tl, an, ly>>

\* stream_logs, line 176
ClientConnect ==
  /\ api.pc = "idle"
  /\ api' = [api EXCEPT !.pc = "existing", !.sent = <<<<"connected", 0>>>>]
  /\ UNCHANGED <<assembly, ck, sp, rv, tl, an, ly>>

\* lines 179-185: the logs already in the deque, then last_count = 0
ClientExisting ==
  /\ api.pc = "existing"
  /\ api' = [api EXCEPT
       !.pc = "poll",
       !.at_connect = api.oldest,
       !.last_count = 0,
       !.sent = api.sent \o [i \in 1 .. DequeLen |-> <<"log", DequeAt(i - 1)>>]]
  /\ UNCHANGED <<assembly, ck, sp, rv, tl, an, ly>>

\* lines 186-208: one pass of the polling loop
ClientPoll ==
  /\ api.pc = "poll"
  /\ LET current_count == DequeLen
         new_logs == IF current_count > api.last_count
                     THEN [i \in 1 .. current_count - api.last_count |->
                             <<"log", DequeAt(api.last_count + i - 1)>>]
                     ELSE <<>>
         finished == api.status \in {"complete", "error"}
     IN  api' = [api EXCEPT
           !.last_count = IF current_count > api.last_count
                          THEN current_count ELSE api.last_count,
           !.sent = api.sent \o new_logs \o
                    (IF finished THEN <<<<"status", 0>>>> ELSE <<>>),
           !.pc = IF finished THEN "closed" ELSE "poll"]
  /\ UNCHANGED <<assembly, ck, sp, rv, tl, an, ly>>

NextApi ==
  \/ JobStart
  \/ JobLog
  \/ JobComplete
  \/ JobError
  \/ ClientConnect
  \/ ClientExisting
  \/ ClientPoll

SpecApi == InitApi /\ [][NextApi]_vars

IsLogEvent(e) == e[1] = "log"

\* C30: the log events sent to the client are in capture order without
\* repetition; when the stream has ended they are all the messages from the
\* oldest one buffered at connect time to the last one captured, and the one
\* status event is the last event
C30_EveryLogOnceInOrder ==
  api.pc \in {"poll", "closed"} =>
    LET logs == SelectSeq(api.sent, IsLogEvent)
    IN  /\ \A i \in 1 .. Len(logs) - 1 : logs[i][2] < logs[i + 1][2]
        /\ api.pc = "closed" =>
             /\ {logs[i][2] : i \in 1 .. Len(logs)} = api.at_connect .. api.captured
             /\ api.sent[Len(api.sent)] = <<"status", 0>>
             /\ Len(logs) = Len(api.sent) - 2
====
